---- MODULE Spec2Model ----
(***************************************************************************)
(* Error-handler registry, safe dispatch and terminal error middleware of  *)
(* the Express base project, as a state machine.                           *)
(*                                                                         *)
(* JavaScript values are records tagged by a field t; a completion is      *)
(* either Return(v) or Throw(e).  An optional number (a statusCode that    *)
(* may be undefined) is the empty sequence or a one-element sequence; an   *)
(* optional string is the string "undefined" or the string itself.         *)
(***************************************************************************)
EXTENDS Integers, Sequences, FiniteSets, TLC

VARIABLES
    errorHandlerRegistry,   \* the module-level Map, as its entries in insertion order
    last,                   \* the most recent API call: its arguments and its outcome
    inflight,               \* the promise an asynchronous dispatch returned, while pending
    snapshot                \* the Map a caller got from getRegisteredHandlers and holds

vars == <<errorHandlerRegistry, last, inflight, snapshot>>

(* ------------------------------ bounds --------------------------------- *)

\* Entries the registry may hold (the Map itself is unbounded).
MaxRegistry == 2

(* ----------------------- HTTP_STATUS constants ------------------------- *)

OK == 200
BAD_REQUEST == 400
UNAUTHORIZED == 401
FORBIDDEN == 403
NOT_FOUND == 404
CONFLICT == 409
INTERNAL_SERVER_ERROR == 500
SERVICE_UNAVAILABLE == 503

\* The statuses an error may carry; <<>> is an absent (undefined) statusCode.
Statuses ==
    {BAD_REQUEST, UNAUTHORIZED, FORBIDDEN, NOT_FOUND, CONFLICT, 429,
     INTERNAL_SERVER_ERROR, SERVICE_UNAVAILABLE}

OptStatuses == {<<>>} \cup {<<s>> : s \in Statuses}

(* --------------------------- class hierarchy --------------------------- *)

\* Error <- BaseException <- TestException <- SpecificTestException
Classes == {"Error", "BaseException", "TestException", "SpecificTestException"}

\* The exception classes of the user module, each `extends BaseException`
UserExceptionClasses ==
    {"UserNotFoundException", "UserValidationException",
     "UserPermissionException", "UserStateException"}

SuperClass(c) ==
    CASE c = "SpecificTestException" -> "TestException"
      [] c \in UserExceptionClasses -> "BaseException"
      [] c = "TestException" -> "BaseException"
      [] c = "BaseException" -> "Error"
      [] OTHER -> "Object"

\* value instanceof k, for a value whose constructor is c: walk c's prototype chain
RECURSIVE InstanceOf(_, _)
InstanceOf(c, k) ==
    IF c = k THEN TRUE
    ELSE IF c = "Object" THEN FALSE
    ELSE InstanceOf(SuperClass(c), k)

(* ------------------------------ handlers ------------------------------- *)

\* Handler functions are told apart by identity only; what a handler does
\* when it is invoked is the environment's choice at the invocation.
Handlers == {"h1", "h2"}

\* findErrorHandler's null
NoHandler == "null"

\* The handlers the user module exports, by the class each is written for
UserHandler(c) ==
    CASE c = "UserNotFoundException" -> "handleUserNotFound"
      [] c = "UserValidationException" -> "handleUserValidation"
      [] c = "UserPermissionException" -> "handleUserPermission"
      [] c = "UserStateException" -> "handleUserState"

UserHandlers == {UserHandler(c) : c \in UserExceptionClasses}

(* ------------------------------ registry ------------------------------- *)

RegistryKeys(registry) == {registry[i].ExceptionClass : i \in 1..Len(registry)}

\* A map that adds an entry at every set
MapSetAppend(registry, ExceptionClass, handler) ==
    Append(registry, [ExceptionClass |-> ExceptionClass, handler |-> handler])

\* A map whose set moves a present key to the end
MapSetMoveToEnd(registry, ExceptionClass, handler) ==
    Append(SelectSeq(registry, LAMBDA e : e.ExceptionClass # ExceptionClass),
           [ExceptionClass |-> ExceptionClass, handler |-> handler])

\* Map.prototype.set: a present key keeps its position and gets the new
\* value; an absent key is appended.
MapSet(registry, ExceptionClass, handler) ==
    IF ExceptionClass \in RegistryKeys(registry)
    THEN [i \in 1..Len(registry) |->
            IF registry[i].ExceptionClass = ExceptionClass
            THEN [ExceptionClass |-> ExceptionClass, handler |-> handler]
            ELSE registry[i]]
    ELSE Append(registry, [ExceptionClass |-> ExceptionClass, handler |-> handler])

\* first loop of findErrorHandler: err.constructor === ExceptionClass
RECURSIVE ExactMatchScan(_, _, _)
ExactMatchScan(registry, ctor, i) ==
    IF i > Len(registry) THEN NoHandler
    ELSE IF ctor = registry[i].ExceptionClass THEN registry[i].handler
    ELSE ExactMatchScan(registry, ctor, i + 1)

\* A lookup that scans the registry from its newest entry
RECURSIVE InheritanceScanNewestFirst(_, _, _)
InheritanceScanNewestFirst(registry, ctor, i) ==
    IF i > Len(registry) THEN NoHandler
    ELSE LET j == Len(registry) + 1 - i IN
         IF InstanceOf(ctor, registry[j].ExceptionClass) THEN registry[j].handler
         ELSE InheritanceScanNewestFirst(registry, ctor, i + 1)

\* second loop of findErrorHandler: err instanceof ExceptionClass
RECURSIVE InheritanceScan(_, _, _)
InheritanceScan(registry, ctor, i) ==
    IF i > Len(registry) THEN NoHandler
    ELSE IF InstanceOf(ctor, registry[i].ExceptionClass) THEN registry[i].handler
    ELSE InheritanceScan(registry, ctor, i + 1)

\* A lookup without the exact-match loop
findErrorHandlerInheritanceOnly(registry, err) ==
    InheritanceScan(registry, err.cls, 1)

\* A lookup without the inheritance loop
findErrorHandlerExactOnly(registry, err) ==
    ExactMatchScan(registry, err.cls, 1)

\* A lookup that falls back to the oldest entry when nothing matches
findErrorHandlerOldestEntry(registry, err) ==
    LET exact == ExactMatchScan(registry, err.cls, 1)
        inherited == InheritanceScan(registry, err.cls, 1)
    IN IF exact # NoHandler THEN exact
       ELSE IF inherited # NoHandler THEN inherited
       ELSE IF registry # <<>> THEN registry[1].handler
       ELSE NoHandler

findErrorHandler(registry, err) ==
    LET exact == ExactMatchScan(registry, err.cls, 1) IN
    IF exact # NoHandler THEN exact
    ELSE InheritanceScan(registry, err.cls, 1)

(* ------------------------------- values -------------------------------- *)

Return(v) == [type |-> "return", value |-> v]
Throw(e) == [type |-> "throw", value |-> e]

\* null and undefined
Null == [t |-> "null"]

\* { ...a, ...b }
Spread(a, b) ==
    [k \in (DOMAIN a) \cup (DOMAIN b) |-> IF k \in DOMAIN b THEN b[k] ELSE a[k]]

\* new Date().toISOString()
Now == "now"

\* new HttpResponse(data, message, statusCode, meta); message is never
\* nullish in the calls modelled here, so getStatusText is not reached.
NewHttpResponse(data, message, statusCode, meta) ==
    [t |-> "HttpResponse",
     data |-> data,
     message |-> message,
     statusCode |-> statusCode,
     success |-> (statusCode >= OK /\ statusCode < 300),
     meta |-> Spread([timestamp |-> Now], meta)]

\* HttpResponse.error(message, statusCode, errorDetails, meta)
HttpResponseError(message, statusCode, errorDetails, meta) ==
    NewHttpResponse(errorDetails, message, statusCode, meta)

\* HttpResponse.success(data, message, statusCode, meta)
HttpResponseSuccess(data, message, statusCode, meta) ==
    NewHttpResponse(data, message, statusCode, meta)

(* ------------------------------- errors -------------------------------- *)

\* An options object for new BaseException(message, options): absent keys
\* are <<>> (numbers, objects) or "undefined" (strings).
NoOptions ==
    [statusCode |-> <<>>, errorCode |-> "undefined", isOperational |-> "undefined",
     correlationId |-> "undefined", data |-> "undefined", metadata |-> <<>>]

\* class BaseException's constructor, run for class cls (this.constructor)
NewBaseException(cls, message, opts) ==
    [cls |-> cls,
     message |-> message,
     statusCode |-> IF opts.statusCode = <<>> THEN <<INTERNAL_SERVER_ERROR>>
                    ELSE opts.statusCode,
     errorCode |-> opts.errorCode,
     isOperational |-> IF opts.isOperational # "undefined"
                       THEN opts.isOperational ELSE "true",
     correlationId |-> opts.correlationId,
     data |-> IF opts.data = "undefined" THEN "null" ELSE opts.data,
     metadata |-> IF opts.metadata = <<>>
                  THEN <<[timestamp |-> Now]>>
                  ELSE <<Spread([timestamp |-> Now], opts.metadata[1])>>,
     \* this.meta = this.metadata: the alias keeps the object when
     \* metadata is reassigned later
     meta |-> IF opts.metadata = <<>>
              THEN <<[timestamp |-> Now]>>
              ELSE <<Spread([timestamp |-> Now], opts.metadata[1])>>]

\* new Error(message): none of the exception fields
NewError(message) ==
    [cls |-> "Error",
     message |-> message,
     statusCode |-> <<>>,
     errorCode |-> "undefined",
     isOperational |-> "undefined",
     correlationId |-> "undefined",
     data |-> "undefined",
     metadata |-> <<>>,
     meta |-> <<>>]

\* The option objects the errors below are built with.
NotFoundOptions ==
    [NoOptions EXCEPT !.statusCode = <<NOT_FOUND>>, !.errorCode = "USER_NOT_FOUND",
                      !.metadata = <<[domain |-> "user"]>>]

ForbiddenOptions ==
    [NoOptions EXCEPT !.statusCode = <<FORBIDDEN>>, !.errorCode = "PERMISSION_DENIED",
                      !.correlationId = "req_456_xyz", !.isOperational = "false",
                      !.data = "details",
                      !.metadata = <<[domain |-> "auth"]>>]

\* The error values handed to the registry, the dispatch and the middleware:
\* a plain Error, exceptions of each class as constructed, and exceptions
\* mutated after construction (metadata nulled, statusCode removed).
ErrorInstances ==
    { NewError("boom"),
      NewBaseException("BaseException", "oops", NoOptions),
      NewBaseException("TestException", "User not found", NotFoundOptions),
      [NewBaseException("TestException", "User not found", NotFoundOptions)
          EXCEPT !.metadata = <<>>],
      NewBaseException("SpecificTestException", "Permission denied", ForbiddenOptions),
      [NewBaseException("SpecificTestException", "Test", NoOptions)
          EXCEPT !.statusCode = <<>>] }

\* One instance of every class, for lookups (only the constructor is read).
LookupInstances ==
    { IF c = "Error" THEN NewError("boom") ELSE NewBaseException(c, "test", NoOptions)
        : c \in Classes \cup UserExceptionClasses }

(* ------------------------ requests, thrown values ---------------------- *)

\* The req argument: null, an object without get, an Express request (get is
\* a function), an object whose get is not callable.
Reqs == {"null", "plain", "express", "badGet"}

\* What a handler may throw or reject with, by the shape of its stack:
\* an Error (stack is a string), a value without stack (a string, null, a
\* plain object), a value whose stack is neither nullish nor a string.
HandlerErrors ==
    { [t |-> "thrown", name |-> "Error", stack |-> "string",
       message |-> "Cannot read properties of null"],
      [t |-> "thrown", name |-> "value", stack |-> "undefined", message |-> "undefined"],
      [t |-> "thrown", name |-> "value", stack |-> "nonString", message |-> "undefined"] }

\* The TypeError the runtime raises for a call of something not callable.
TypeError ==
    [t |-> "thrown", name |-> "TypeError", stack |-> "string",
     message |-> "is not a function"]

(* ----------------------- fallback response builder --------------------- *)

\* x || y on an optional number: undefined and 0 are falsy
OrElse(opt, default) ==
    IF opt = <<>> THEN default
    ELSE IF opt[1] = 0 THEN default
    ELSE opt[1]

nonRetryableStatusCodes == {BAD_REQUEST, UNAUTHORIZED, FORBIDDEN, NOT_FOUND, CONFLICT}

\* A classification that treats every status below 500 as a client error
isRetryableErrorServerOnly(error) ==
    IF error.statusCode # <<>> /\ error.statusCode[1] # 0
       /\ error.statusCode[1] < INTERNAL_SERVER_ERROR
    THEN FALSE
    ELSE TRUE

isRetryableError(error) ==
    IF error.statusCode # <<>> /\ error.statusCode[1] # 0
       /\ error.statusCode[1] \in nonRetryableStatusCodes
    THEN FALSE
    ELSE TRUE

\* `fallback_${Date.now()}_${random}`: a fresh token
generateSafeCorrelationId == "fallback_generated"

\* A mapping that answers 401 like 403
fallbackMessageUnauthorized(fallbackStatusCode) ==
    IF fallbackStatusCode = NOT_FOUND THEN "Requested resource not found"
    ELSE IF fallbackStatusCode = BAD_REQUEST THEN "Invalid request data"
    ELSE IF fallbackStatusCode \in {FORBIDDEN, UNAUTHORIZED} THEN "Access denied"
    ELSE IF fallbackStatusCode = CONFLICT THEN "Resource conflict occurred"
    ELSE "Service temporarily unavailable"

fallbackMessage(fallbackStatusCode) ==
    IF fallbackStatusCode = NOT_FOUND THEN "Requested resource not found"
    ELSE IF fallbackStatusCode = BAD_REQUEST THEN "Invalid request data"
    ELSE IF fallbackStatusCode = FORBIDDEN THEN "Access denied"
    ELSE IF fallbackStatusCode = CONFLICT THEN "Resource conflict occurred"
    ELSE "Service temporarily unavailable"

\* A builder that reads the domain through the meta alias as well
safeMetaFromAlias(originalError) ==
    Spread(
        [errorCode |-> "HANDLER_EXECUTION_FAILED",
         originalErrorCode |-> originalError.errorCode,
         correlationId |-> IF originalError.correlationId \in {"undefined", ""}
                           THEN generateSafeCorrelationId
                           ELSE originalError.correlationId,
         timestamp |-> Now,
         retryable |-> isRetryableError(originalError)],
        LET metadata == IF originalError.metadata # <<>> THEN originalError.metadata
                        ELSE originalError.meta
        IN IF metadata # <<>> /\ "domain" \in DOMAIN metadata[1]
           THEN [domain |-> metadata[1].domain]
           ELSE <<>>)

safeMeta(originalError) ==
    Spread(
        [errorCode |-> "HANDLER_EXECUTION_FAILED",
         originalErrorCode |-> originalError.errorCode,
         correlationId |-> IF originalError.correlationId \in {"undefined", ""}
                           THEN generateSafeCorrelationId
                           ELSE originalError.correlationId,
         timestamp |-> Now,
         retryable |-> isRetryableError(originalError)],
        \* ...(originalError?.metadata?.domain && { domain })
        IF originalError.metadata # <<>>
           /\ "domain" \in DOMAIN originalError.metadata[1]
           /\ originalError.metadata[1].domain # ""
        THEN [domain |-> originalError.metadata[1].domain]
        ELSE <<>>)

\* Building logContext evaluates handlerError?.stack?.split('\n') and, for a
\* truthy req, req.get?.('user-agent'): each is a call, guarded against a
\* nullish callee only, and raises TypeError on any other non-function.
logContextThrows(handlerError, req) ==
    \/ handlerError.stack = "nonString"
    \/ req = "badGet"

\* A builder that forwards the original error's message and data for
\* statuses without a message of their own
createFallbackResponseForwarding(originalError, handlerError, req) ==
    IF logContextThrows(handlerError, req) THEN Throw(TypeError)
    ELSE LET fallbackStatusCode == OrElse(originalError.statusCode, INTERNAL_SERVER_ERROR)
         IN Return(HttpResponseError(
                IF fallbackStatusCode \in {NOT_FOUND, BAD_REQUEST, FORBIDDEN, CONFLICT}
                THEN fallbackMessage(fallbackStatusCode)
                ELSE originalError.message,
                fallbackStatusCode,
                originalError.data,
                safeMeta(originalError)))

\* createFallbackResponse(originalError, handlerError, req), as a completion
createFallbackResponse(originalError, handlerError, req) ==
    IF logContextThrows(handlerError, req) THEN Throw(TypeError)
    ELSE LET fallbackStatusCode == OrElse(originalError.statusCode, INTERNAL_SERVER_ERROR)
         IN Return(HttpResponseError(fallbackMessage(fallbackStatusCode),
                                     fallbackStatusCode,
                                     "null",
                                     safeMeta(originalError)))

(* ---------------------------- safe wrapper ----------------------------- *)

\* The HttpResponse a handler builds when it succeeds.
HandlerResponse(handler) ==
    HttpResponseError("Test handler response", BAD_REQUEST, "null",
                      [handledBy |-> handler])

\* A promise-like value: then is a function; catch is a function or absent.
PendingPromise == [t |-> "Promise", hasCatch |-> TRUE]
ThenableWithoutCatch == [t |-> "Promise", hasCatch |-> FALSE]

IsThenable(v) == v.t = "Promise"

\* What one invocation handler(err, req, res) may do.
HandlerCompletions(handler) ==
    {Return(HandlerResponse(handler)), Return(Null),
     Return(PendingPromise), Return(ThenableWithoutCatch)}
    \cup {Throw(e) : e \in HandlerErrors}

\* How the promise a handler returned may settle: Return is fulfilment,
\* Throw is rejection.
HandlerSettlements(handler) ==
    {Return(HandlerResponse(handler))} \cup {Throw(e) : e \in HandlerErrors}

\* safeHandlerWrapper(err, req, res), given what the wrapped handler did
safeHandlerWrapper(completion, err, req) ==
    IF completion.type = "throw"
    THEN createFallbackResponse(err, completion.value, req)
    ELSE IF IsThenable(completion.value)
         THEN IF completion.value.hasCatch
              THEN Return(PendingPromise)          \* result.catch(...)
              ELSE \* result.catch is not a function: caught by the catch block
                   createFallbackResponse(err, TypeError, req)
         ELSE completion

\* The settlement of result.catch(handlerError => createFallbackResponse(...))
safeCatchSettlement(settlement, err, req) ==
    IF settlement.type = "return" THEN settlement
    ELSE createFallbackResponse(err, settlement.value, req)

\* A dispatch that wraps the handler whatever the option says
invokeHandlerAlwaysSafe(completion, err, req, useSafeWrapper) ==
    safeHandlerWrapper(completion, err, req)

\* handleWithRegistry past the lookup: the handler was found and did `completion`
invokeHandler(completion, err, req, useSafeWrapper) ==
    IF useSafeWrapper THEN safeHandlerWrapper(completion, err, req)
    ELSE completion

(* -------------------------- HttpResponse.send -------------------------- *)

\* HTTP_OPTIONS as initialised without environment overrides
HTTP_OPTIONS ==
    [USE_STATUS_CODE_IN_RESPONSE |-> TRUE,
     SET_DEFAULT_HTTP_STATUS_CODE |-> FALSE,
     DEFAULT_HTTP_STATUS_CODE |-> OK,
     STRICT_CONTROLLER_RETURN |-> TRUE]

\* overrideHttpOptions(overrides): Object.assign(HTTP_OPTIONS, overrides)
overrideHttpOptions(options, overrides) == Spread(options, overrides)

\* A body that puts the payload under data whether the response succeeded or not
sendBodyDataAlways(response, options) ==
    Spread(Spread(Spread(
        [success |-> response.success, message |-> response.message],
        IF options.USE_STATUS_CODE_IN_RESPONSE
        THEN [statusCode |-> response.statusCode] ELSE <<>>),
        IF response.data \in {"undefined", "null"} THEN <<>>
        ELSE [data |-> response.data]),
        IF DOMAIN response.meta # {} THEN [meta |-> response.meta] ELSE <<>>)

\* The body HttpResponse.send builds
sendBody(response, options) ==
    Spread(Spread(Spread(
        [success |-> response.success, message |-> response.message],
        IF options.USE_STATUS_CODE_IN_RESPONSE
        THEN [statusCode |-> response.statusCode] ELSE <<>>),
        IF response.data \in {"undefined", "null"} THEN <<>>
        ELSE IF response.success THEN [data |-> response.data]
        ELSE [error |-> response.data]),
        IF DOMAIN response.meta # {} THEN [meta |-> response.meta] ELSE <<>>)

\* What res.status(finalStatusCode).type('application/json').send(body) receives
send(response, options) ==
    [status |-> IF options.SET_DEFAULT_HTTP_STATUS_CODE
                THEN options.DEFAULT_HTTP_STATUS_CODE
                ELSE response.statusCode,
     body |-> sendBody(response, options)]

(* ------------------------------- state --------------------------------- *)

NoInflight == [active |-> FALSE]

\* No call is running and the caller has taken the last outcome.
NoCall == [op |-> "idle"]

\* The caller holds no Map.
NoSnapshot == [ref |-> "none"]

Init ==
    /\ errorHandlerRegistry = <<>>
    /\ last = NoCall
    /\ inflight = NoInflight
    /\ snapshot = NoSnapshot

\* Calls run to completion one after the other (one JavaScript thread): a
\* call starts once the caller has taken the outcome of the one before.
Ready == last = NoCall

\* The model follows one asynchronous dispatch and one held Map at a time:
\* while a promise is pending or a Map is held, the only calls are those on
\* the registry or on the Map.
Idle == Ready /\ ~inflight.active /\ snapshot = NoSnapshot

\* The caller takes the outcome of the last call and goes on.
CallerContinues ==
    /\ last # NoCall
    /\ last' = NoCall
    /\ UNCHANGED <<errorHandlerRegistry, inflight, snapshot>>

(* ------------------------------ registry API --------------------------- *)

NotAClass == "NotAClass"
NotAFunction == "NotAFunction"

\* typeof x === 'function'
IsFunction(x) == x \in Classes \cup Handlers \cup UserExceptionClasses \cup UserHandlers

\* A registration that stores the entry before it validates the handler
registerErrorHandlerStoreFirst(registry, ExceptionClass, handler) ==
    IF ~IsFunction(ExceptionClass)
    THEN [registry |-> registry,
          outcome |-> Throw([t |-> "thrown", name |-> "Error", stack |-> "string",
                             message |-> "ExceptionClass must be a constructor function"])]
    ELSE IF ~IsFunction(handler)
    THEN [registry |-> MapSet(registry, ExceptionClass, handler),
          outcome |-> Throw([t |-> "thrown", name |-> "Error", stack |-> "string",
                             message |-> "Handler must be a function"])]
    ELSE [registry |-> MapSet(registry, ExceptionClass, handler),
          outcome |-> Return(Null)]

registerErrorHandler(registry, ExceptionClass, handler) ==
    IF ~IsFunction(ExceptionClass)
    THEN [registry |-> registry,
          outcome |-> Throw([t |-> "thrown", name |-> "Error", stack |-> "string",
                             message |-> "ExceptionClass must be a constructor function"])]
    ELSE IF ~IsFunction(handler)
    THEN [registry |-> registry,
          outcome |-> Throw([t |-> "thrown", name |-> "Error", stack |-> "string",
                             message |-> "Handler must be a function"])]
    ELSE [registry |-> MapSet(registry, ExceptionClass, handler),
          outcome |-> Return(Null)]

RegisterErrorHandler ==
    /\ Ready
    /\ \E ExceptionClass \in Classes \cup {NotAClass}, handler \in Handlers \cup {NotAFunction} :
        LET r == registerErrorHandler(errorHandlerRegistry, ExceptionClass, handler) IN
        /\ Len(r.registry) <= MaxRegistry
        /\ errorHandlerRegistry' = r.registry
        /\ last' = [op |-> "registerErrorHandler", ExceptionClass |-> ExceptionClass,
                    handler |-> handler, outcome |-> r.outcome]
    /\ UNCHANGED <<inflight, snapshot>>

\* initializeUserModule(): the registerErrorHandler calls it makes, in order
\* (the call for UserValidationException is commented out in the source)
initializeUserModule(registry) ==
    LET r1 == registerErrorHandler(registry, "UserNotFoundException",
                                   "handleUserNotFound").registry
        r2 == registerErrorHandler(r1, "UserPermissionException",
                                   "handleUserPermission").registry
    IN registerErrorHandler(r2, "UserStateException", "handleUserState").registry

\* The bootstrap calls initializeUserModule once, after setupDefaultHandlers:
\* at most one handler is registered before it.
InitializeUserModule ==
    /\ Idle
    /\ Len(errorHandlerRegistry) <= 1
    /\ errorHandlerRegistry' = initializeUserModule(errorHandlerRegistry)
    /\ last' = [op |-> "initializeUserModule"]
    /\ UNCHANGED <<inflight, snapshot>>

\* A clear that removes the oldest entry only
clearRegistryOldest(registry) ==
    IF registry = <<>> THEN <<>> ELSE Tail(registry)

\* errorHandlerRegistry.clear()
clearRegistry(registry) == <<>>

\* `removed` remembers how many entries the call removed.
ClearRegistry ==
    /\ Ready
    /\ errorHandlerRegistry' = clearRegistry(errorHandlerRegistry)
    /\ last' = [op |-> "clearRegistry",
                removed |-> Len(errorHandlerRegistry) - Len(errorHandlerRegistry')]
    /\ UNCHANGED <<inflight, snapshot>>

(* --------------------------- HttpResponse.send ------------------------- *)

\* The overrides the tests apply to HTTP_OPTIONS before a send
SendOverrides ==
    {[USE_STATUS_CODE_IN_RESPONSE |-> u, SET_DEFAULT_HTTP_STATUS_CODE |-> d,
      DEFAULT_HTTP_STATUS_CODE |-> c] : u \in BOOLEAN, d \in BOOLEAN, c \in {OK, 418}}

\* The responses sent: success and failure statuses around the 2xx range,
\* with a payload, with null and with undefined as data
SendResponses ==
    {NewHttpResponse(data, "msg", statusCode, <<>>) :
        data \in {"undefined", "null", "payload"},
        statusCode \in {199, OK, 201, 299, 300, NOT_FOUND, INTERNAL_SERVER_ERROR}}

\* response.send(res) under overridden options; a res without status or json
\* makes send throw before anything is sent.
HttpResponseSend ==
    /\ Idle
    /\ \E response \in SendResponses, overrides \in SendOverrides, resIsValid \in BOOLEAN :
        LET options == overrideHttpOptions(HTTP_OPTIONS, overrides) IN
        last' = [op |-> "send", response |-> response, options |-> options,
                 resIsValid |-> resIsValid,
                 sent |-> IF resIsValid THEN <<send(response, options)>> ELSE <<>>,
                 outcome |-> IF resIsValid THEN Return(Null)
                             ELSE Throw([t |-> "thrown", name |-> "Error",
                                         stack |-> "string",
                                         message |-> "Invalid Express response object"])]
    /\ UNCHANGED <<errorHandlerRegistry, inflight, snapshot>>

(* ----------------------- getRegisteredHandlers ------------------------ *)

\* A Map value is a reference: "copy" is a Map of its own with its entries,
\* "live" is the registry's Map itself, whose entries are the registry's.

\* A getter that hands out the registry's Map
getRegisteredHandlersLive(registry) == [ref |-> "live"]

\* new Map(errorHandlerRegistry)
getRegisteredHandlers(registry) == [ref |-> "copy", entries |-> registry]

\* The entries of the Map behind a reference
MapEntries(map, registry) ==
    IF map.ref = "live" THEN registry
    ELSE IF map.ref = "copy" THEN map.entries
    ELSE <<>>

GetRegisteredHandlers ==
    /\ Ready
    /\ ~inflight.active
    /\ snapshot' = getRegisteredHandlers(errorHandlerRegistry)
    /\ last' = [op |-> "getRegisteredHandlers",
                result |-> MapEntries(snapshot', errorHandlerRegistry)]
    /\ UNCHANGED <<errorHandlerRegistry, inflight>>

\* Map.prototype.delete
MapDelete(entries, key) ==
    SelectSeq(entries, LAMBDA e : e.ExceptionClass # key)

\* What the caller may do to the Map it holds
MapMutations(entries) ==
    {[method |-> "clear"]}
    \cup {[method |-> "delete", key |-> k] : k \in RegistryKeys(entries)}
    \cup {[method |-> "set", key |-> k, value |-> h] : k \in Classes, h \in Handlers}

MapApply(entries, mutation) ==
    IF mutation.method = "clear" THEN <<>>
    ELSE IF mutation.method = "delete" THEN MapDelete(entries, mutation.key)
    ELSE MapSet(entries, mutation.key, mutation.value)

\* The caller mutates the Map it holds: the entries of that Map change, which
\* are the registry's when the Map is the registry's.
MutateSnapshot ==
    /\ Ready
    /\ snapshot # NoSnapshot
    /\ \E mutation \in MapMutations(MapEntries(snapshot, errorHandlerRegistry)) :
        LET result == MapApply(MapEntries(snapshot, errorHandlerRegistry), mutation) IN
        /\ Len(result) <= MaxRegistry
        /\ IF snapshot.ref = "live"
           THEN errorHandlerRegistry' = result /\ snapshot' = snapshot
           ELSE snapshot' = [snapshot EXCEPT !.entries = result]
                /\ errorHandlerRegistry' = errorHandlerRegistry
        /\ last' = [op |-> "snapshotMutated", mutation |-> mutation]
    /\ UNCHANGED inflight

\* The caller lets go of the Map.
DropSnapshot ==
    /\ Ready
    /\ snapshot # NoSnapshot
    /\ snapshot' = NoSnapshot
    /\ UNCHANGED <<errorHandlerRegistry, last, inflight>>

FindErrorHandler ==
    /\ Idle
    /\ \E err \in LookupInstances :
        last' = [op |-> "findErrorHandler", err |-> err,
                 result |-> findErrorHandler(errorHandlerRegistry, err)]
    /\ UNCHANGED <<errorHandlerRegistry, inflight, snapshot>>

(* --------------------------- fallback builder -------------------------- *)

\* The original errors createFallbackResponse is called with directly: the
\* error instances, and an exception with every status.
FallbackOriginals ==
    ErrorInstances
    \cup {[NewBaseException("BaseException", "Test", NoOptions) EXCEPT !.statusCode = s]
            : s \in OptStatuses}
    \cup {NewBaseException("BaseException", "connect ECONNREFUSED 10.0.0.5",
                           [NoOptions EXCEPT !.data = "details"])}

CreateFallbackResponse ==
    /\ Idle
    /\ \E originalError \in FallbackOriginals, handlerError \in HandlerErrors, req \in Reqs :
        last' = [op |-> "createFallbackResponse", err |-> originalError,
                 handlerError |-> handlerError, req |-> req,
                 outcome |-> createFallbackResponse(originalError, handlerError, req)]
    /\ UNCHANGED <<errorHandlerRegistry, inflight, snapshot>>

(* ------------------------------ dispatch ------------------------------- *)

Invocation(handler, err, req, res) ==
    [handler |-> handler, err |-> err, req |-> req, res |-> res]

Pending(via, handler, err, req, useSafeWrapper) ==
    [active |-> TRUE, via |-> via, handler |-> handler, err |-> err, req |-> req,
     useSafeWrapper |-> useSafeWrapper]

IsPendingPromise(completion) ==
    completion.type = "return" /\ IsThenable(completion.value)

HandleWithRegistry ==
    /\ Idle
    /\ \E err \in ErrorInstances, req \in Reqs, useSafeWrapper \in BOOLEAN :
        LET handler == findErrorHandler(errorHandlerRegistry, err) IN
        IF handler = NoHandler
        THEN /\ last' = [op |-> "handleWithRegistry", err |-> err, req |-> req,
                         useSafeWrapper |-> useSafeWrapper, handler |-> NoHandler,
                         invocations |-> <<>>, completion |-> Return(Null),
                         outcome |-> Return(Null)]
             /\ inflight' = NoInflight
        ELSE \E completion \in HandlerCompletions(handler) :
             LET outcome == invokeHandler(completion, err, req, useSafeWrapper) IN
             /\ last' = [op |-> "handleWithRegistry", err |-> err, req |-> req,
                         useSafeWrapper |-> useSafeWrapper, handler |-> handler,
                         invocations |-> <<Invocation(handler, err, req, "res")>>,
                         completion |-> completion,
                         outcome |-> outcome]
             /\ inflight' = IF IsPendingPromise(outcome)
                            THEN Pending("handleWithRegistry", handler, err, req,
                                         useSafeWrapper)
                            ELSE NoInflight
    /\ UNCHANGED <<errorHandlerRegistry, snapshot>>

\* The pending promise settles: the handler's own promise fulfils or rejects,
\* and the promise the dispatch returned follows it.
\* A settlement that looks the handler up again in the registry
settledHandlerLookup(registry, pending) == findErrorHandler(registry, pending.err)

\* The handler whose promise settles: the one the dispatch called, which the
\* wrapper's closure and the promise hold; the registry is not read again.
settledHandler(registry, pending) == pending.handler

\* On settlement no handler is invoked and nothing is sent: the middleware
\* does not wait for the promise.
Settle ==
    /\ Ready
    /\ inflight.active
    /\ \E settlement \in HandlerSettlements(settledHandler(errorHandlerRegistry, inflight)) :
        last' = [op |-> "settled", via |-> inflight.via, err |-> inflight.err,
                 req |-> inflight.req,
                 handler |-> settledHandler(errorHandlerRegistry, inflight),
                 useSafeWrapper |-> inflight.useSafeWrapper,
                 invocations |-> <<>>, sent |-> <<>>,
                 settlement |-> settlement,
                 outcome |-> IF inflight.useSafeWrapper
                             THEN safeCatchSettlement(settlement, inflight.err, inflight.req)
                             ELSE settlement]
    /\ inflight' = NoInflight
    /\ UNCHANGED <<errorHandlerRegistry, snapshot>>

(* ------------------------- terminal middleware ------------------------- *)

\* An error that is itself an HttpResponse (a controller threw one)
ThrownHttpResponse == HttpResponseError("bad", BAD_REQUEST, "null", <<>>)

IsHttpResponse(v) == "t" \in DOMAIN v /\ v.t = "HttpResponse"

IsBaseException(err) == ~IsHttpResponse(err) /\ InstanceOf(err.cls, "BaseException")

\* A conversion that reads metadata only and falls back to 500
defaultExceptionResponsePlain(err) ==
    LET base == IF err.metadata # <<>> THEN err.metadata[1] ELSE <<>>
        meta == Spread(Spread(Spread(base,
                    IF err.errorCode # "undefined"
                    THEN [errorCode |-> err.errorCode] ELSE <<>>),
                    IF err.isOperational # "undefined"
                    THEN [isOperational |-> err.isOperational] ELSE <<>>),
                    IF err.correlationId # "undefined"
                    THEN [correlationId |-> err.correlationId] ELSE <<>>)
    IN HttpResponseError(err.message,
                         IF err.statusCode = <<>> THEN INTERNAL_SERVER_ERROR
                         ELSE err.statusCode[1],
                         err.data,
                         meta)

\* step 3 of globalErrorHandler: the default conversion of a BaseException
defaultExceptionResponse(err) ==
    LET base == IF err.metadata # <<>> THEN err.metadata[1]
                ELSE IF err.meta # <<>> THEN err.meta[1]
                ELSE <<>>
        meta == Spread(Spread(Spread(base,
                    IF err.errorCode # "undefined"
                    THEN [errorCode |-> err.errorCode] ELSE <<>>),
                    IF err.isOperational # "undefined"
                    THEN [isOperational |-> err.isOperational] ELSE <<>>),
                    IF err.correlationId # "undefined"
                    THEN [correlationId |-> err.correlationId] ELSE <<>>)
    IN HttpResponseError(err.message,
                         IF err.statusCode = <<>> THEN BAD_REQUEST ELSE err.statusCode[1],
                         err.data,
                         meta)

\* A last tier that answers with the error's message in every environment
unknownErrorResponseUnmasked(err, NODE_ENV) ==
    HttpResponseError(
        IF err.message = "" THEN "Internal Server Error" ELSE err.message,
        INTERNAL_SERVER_ERROR, "null", <<>>)

\* step 4 of globalErrorHandler: anything else
unknownErrorResponse(err, NODE_ENV) ==
    HttpResponseError(
        IF NODE_ENV = "production" THEN "Internal Server Error"
        ELSE IF err.message = "" THEN "Internal Server Error"
        ELSE err.message,
        INTERNAL_SERVER_ERROR, "null", <<>>)

\* The tiers after the registry: what is sent when handleWithRegistry gave
\* nothing
lastResortResponse(err, NODE_ENV) ==
    IF IsBaseException(err) THEN defaultExceptionResponse(err)
    ELSE unknownErrorResponse(err, NODE_ENV)

\* A middleware that converts a BaseException itself before it looks at what
\* the registry gave
afterRegistryDefaultFirst(customResponse, err, NODE_ENV) ==
    IF customResponse.type = "throw"
    THEN [sent |-> <<>>, outcome |-> customResponse]
    ELSE IF IsBaseException(err)
    THEN [sent |-> <<send(defaultExceptionResponse(err), HTTP_OPTIONS)>>,
          outcome |-> Return(Null)]
    ELSE IF customResponse.value = Null
    THEN [sent |-> <<send(unknownErrorResponse(err, NODE_ENV), HTTP_OPTIONS)>>,
          outcome |-> Return(Null)]
    ELSE IF IsHttpResponse(customResponse.value)
    THEN [sent |-> <<send(customResponse.value, HTTP_OPTIONS)>>,
          outcome |-> Return(Null)]
    ELSE [sent |-> <<>>, outcome |-> Throw(TypeError)]

\* A middleware for which a dispatch that completed has answered, whatever
\* it returned
afterRegistryNullHandled(customResponse, err, NODE_ENV) ==
    IF customResponse.type = "throw"
    THEN [sent |-> <<>>, outcome |-> customResponse]
    ELSE IF IsHttpResponse(customResponse.value)
    THEN [sent |-> <<send(customResponse.value, HTTP_OPTIONS)>>,
          outcome |-> Return(Null)]
    ELSE [sent |-> <<>>, outcome |-> Return(Null)]

\* globalErrorHandler from `if (customResponse)` on: customResponse is what
\* handleWithRegistry completed with. Gives what is sent and how the
\* middleware completes.
afterRegistry(customResponse, err, NODE_ENV) ==
    IF customResponse.type = "throw"
    THEN [sent |-> <<>>, outcome |-> customResponse]
    ELSE IF customResponse.value = Null
    THEN [sent |-> <<send(lastResortResponse(err, NODE_ENV), HTTP_OPTIONS)>>,
          outcome |-> Return(Null)]
    ELSE IF IsHttpResponse(customResponse.value)
    THEN [sent |-> <<send(customResponse.value, HTTP_OPTIONS)>>,
          outcome |-> Return(Null)]
    ELSE \* a promise has no send method: customResponse.send is not a function
         [sent |-> <<>>, outcome |-> Throw(TypeError)]

\* The errors the middleware receives: the error instances, an Error without
\* a message, a thrown HttpResponse.
MiddlewareErrors == ErrorInstances \cup {NewError(""), ThrownHttpResponse}

\* One call of globalErrorHandler: its arguments, what it did (lookups in the
\* registry, the handler invoked and what that handler did, calls of next,
\* responses sent) and how it completed.
MiddlewareCall(err, req, headersSent, NODE_ENV, lookups, handler, completion, nextCalls, sent, outcome) ==
    [op |-> "globalErrorHandler", err |-> err, req |-> req,
     headersSentOnEntry |-> headersSent, NODE_ENV |-> NODE_ENV,
     lookups |-> lookups, handler |-> handler,
     invocations |-> IF handler = NoHandler THEN <<>>
                     ELSE <<Invocation(handler, err, req, "res")>>,
     completion |-> completion,
     nextCalls |-> nextCalls, sent |-> sent, outcome |-> outcome]

\* An entry sequence that tests for a thrown HttpResponse before headersSent
entryTierResponseFirst(err, headersSent) ==
    IF IsHttpResponse(err) THEN "send"
    ELSE IF headersSent THEN "next"
    ELSE "registry"

\* The two tests globalErrorHandler starts with: res.headersSent, then
\* err instanceof HttpResponse
entryTier(err, headersSent) ==
    IF headersSent THEN "next"
    ELSE IF IsHttpResponse(err) THEN "send"
    ELSE "registry"

GlobalErrorHandler ==
    /\ Idle
    /\ \E err \in MiddlewareErrors, req \in Reqs \ {"null"},
          headersSent \in BOOLEAN, NODE_ENV \in {"production", "development"} :
        LET tier == entryTier(err, headersSent) IN
        IF tier = "next"
        THEN /\ last' = MiddlewareCall(err, req, headersSent, NODE_ENV, 0, NoHandler,
                                       Return(Null), <<err>>, <<>>, Return(Null))
             /\ inflight' = NoInflight
        ELSE IF tier = "send"
        THEN /\ last' = MiddlewareCall(err, req, headersSent, NODE_ENV, 0, NoHandler,
                                       Return(Null), <<>>, <<send(err, HTTP_OPTIONS)>>,
                                       Return(Null))
             /\ inflight' = NoInflight
        ELSE LET handler == findErrorHandler(errorHandlerRegistry, err) IN
             IF handler = NoHandler
             THEN LET r == afterRegistry(Return(Null), err, NODE_ENV) IN
                  /\ last' = MiddlewareCall(err, req, headersSent, NODE_ENV, 1, NoHandler,
                                            Return(Null), <<>>, r.sent, r.outcome)
                  /\ inflight' = NoInflight
             ELSE \E completion \in HandlerCompletions(handler) :
                  LET customResponse == invokeHandler(completion, err, req, TRUE)
                      r == afterRegistry(customResponse, err, NODE_ENV)
                  IN /\ last' = MiddlewareCall(err, req, headersSent, NODE_ENV, 1, handler,
                                               completion, <<>>, r.sent, r.outcome)
                     /\ inflight' = IF IsPendingPromise(customResponse)
                                    THEN Pending("globalErrorHandler", handler, err, req, TRUE)
                                    ELSE NoInflight
    /\ UNCHANGED <<errorHandlerRegistry, snapshot>>

(* ----------------------------- wrapController ------------------------- *)

\* What a controller returns that is not an HttpResponse: undefined, null, a
\* plain object, or res itself (`return res.send(...)`)
Value(v) == [t |-> "value", v |-> v]

\* The response a controller sends itself through res
DirectResponse == [status |-> 201, body |-> "free"]

\* The Error the res proxy throws on send, json, status and end
ProxyError ==
    [t |-> "thrown", name |-> "Error", stack |-> "string",
     message |-> "Direct use of res.send() is not allowed inside controllerFn!"]

\* The error res raises when it is asked to send after the headers were sent
HeadersSentError ==
    [t |-> "thrown", name |-> "Error", stack |-> "string",
     message |-> "Cannot set headers after they are sent to the client"]

\* One run of a controller: whether it first sends through res, and how it
\* then completes.
ControllerRuns ==
    [sends : BOOLEAN,
     completion :
        {Return(Value(v)) : v \in {"undefined", "null", "payload", "res"}}
        \cup {Return(HttpResponseSuccess("yay", "Success", OK, <<>>)),
              Return(HttpResponseError("bad", BAD_REQUEST, "null", <<>>))}
        \cup {Throw(NewError("unexpected")),
              Throw(NewBaseException("BaseException", "unauth", NoOptions)),
              Throw(ThrownHttpResponse)}]

\* await controllerFn(req, resForController): what was sent by the controller
\* and how the await completed. Through the proxy the send throws.
controllerRun(run, allowRes) ==
    IF ~run.sends THEN [sent |-> <<>>, completion |-> run.completion]
    ELSE IF allowRes THEN [sent |-> <<DirectResponse>>, completion |-> run.completion]
    ELSE [sent |-> <<>>, completion |-> Throw(ProxyError)]

\* response.send(res) by the wrapper: res has sent `sent` so far. A res whose
\* headers are sent either takes the second send (a mock) or raises.
wrapperSend(response, sent, options, res) ==
    IF sent # <<>> /\ res = "express"
    THEN [sent |-> sent, nextCalls |-> <<HeadersSentError>>]
    ELSE [sent |-> Append(sent, send(response, options)), nextCalls |-> <<>>]

\* The BaseException the wrapper throws for a controller that returned nothing
NoResponse ==
    NewBaseException("BaseException", "No response",
                     [NoOptions EXCEPT !.statusCode = <<INTERNAL_SERVER_ERROR>>])

\* A wrapper that answers for a controller that returned nothing whatever
\* STRICT_CONTROLLER_RETURN says
afterControllerLenient(completion, sent, options, res) ==
    IF completion.type = "throw"
    THEN [sent |-> sent, nextCalls |-> <<completion.value>>]
    ELSE IF completion.value = Value("undefined")
    THEN IF sent = <<>>
         THEN wrapperSend(HttpResponseSuccess("null", "Success", OK, <<>>),
                          sent, options, res)
         ELSE [sent |-> sent, nextCalls |-> <<>>]
    ELSE IF IsHttpResponse(completion.value)
    THEN wrapperSend(completion.value, sent, options, res)
    ELSE wrapperSend(HttpResponseSuccess(completion.value.v, "Success", OK, <<>>),
                     sent, options, res)

\* The try block of the wrapper after the await, and its catch: res.headersSent
\* is true once `sent` is not empty.
afterController(completion, sent, options, res) ==
    IF completion.type = "throw"
    THEN [sent |-> sent, nextCalls |-> <<completion.value>>]
    ELSE IF completion.value = Value("undefined")
    THEN IF options.STRICT_CONTROLLER_RETURN /\ sent = <<>>
         THEN [sent |-> sent, nextCalls |-> <<NoResponse>>]
         ELSE IF ~options.STRICT_CONTROLLER_RETURN /\ sent = <<>>
         THEN wrapperSend(HttpResponseSuccess("null", "Success", OK, <<>>),
                          sent, options, res)
         ELSE [sent |-> sent, nextCalls |-> <<>>]
    ELSE IF IsHttpResponse(completion.value)
    THEN wrapperSend(completion.value, sent, options, res)
    ELSE wrapperSend(HttpResponseSuccess(completion.value.v, "Success", OK, <<>>),
                     sent, options, res)

\* One request through the function wrapController(controllerFn, { allowRes })
\* returned; res has sent nothing on entry.
WrapController ==
    /\ Idle
    /\ \E run \in ControllerRuns, allowRes \in BOOLEAN, strict \in BOOLEAN,
          res \in {"mock", "express"} :
        LET options == overrideHttpOptions(HTTP_OPTIONS,
                                           [STRICT_CONTROLLER_RETURN |-> strict])
            ran == controllerRun(run, allowRes)
            r == afterController(ran.completion, ran.sent, options, res)
        IN last' = [op |-> "wrapController", run |-> run, allowRes |-> allowRes,
                    options |-> options, res |-> res,
                    sentByController |-> ran.sent,
                    sent |-> r.sent, nextCalls |-> r.nextCalls,
                    outcome |-> Return(Null)]
    /\ UNCHANGED <<errorHandlerRegistry, inflight, snapshot>>

(* ---------------------------- specification ---------------------------- *)

Next ==
    \/ RegisterErrorHandler
    \/ ClearRegistry
    \/ InitializeUserModule
    \/ WrapController
    \/ HttpResponseSend
    \/ GetRegisteredHandlers
    \/ MutateSnapshot
    \/ DropSnapshot
    \/ FindErrorHandler
    \/ CreateFallbackResponse
    \/ HandleWithRegistry
    \/ Settle
    \/ GlobalErrorHandler
    \/ CallerContinues

Spec == Init /\ [][Next]_vars

(* ============================== claims ================================= *)

\* Map.prototype.get on the registry
RegisteredHandler(registry, cls) ==
    LET i == CHOOSE j \in 1..Len(registry) : registry[j].ExceptionClass = cls
    IN registry[i].handler

\* child extends parent, directly or not
Extends(child, parent) == child # parent /\ InstanceOf(child, parent)

LookedUp == last.op = "findErrorHandler"

\* C1: exact-match precedence. With handlers registered for both Child and
\* Parent (Child extends Parent), in either order, findErrorHandler gives
\* Child's handler for a Child instance and Parent's for a Parent instance.
C1_ExactMatchPrecedence ==
    LookedUp =>
        \A parent \in Classes, child \in Classes :
            ( /\ Extends(child, parent)
              /\ {parent, child} \subseteq RegistryKeys(errorHandlerRegistry) )
            => /\ last.err.cls = child
                    => last.result = RegisteredHandler(errorHandlerRegistry, child)
               /\ last.err.cls = parent
                    => last.result = RegisteredHandler(errorHandlerRegistry, parent)

\* A Child instance looked up with Parent registered before Child, the two
\* handlers different: the lookup gave Child's.
C1_Witness ==
    /\ LookedUp
    /\ last.err.cls = "SpecificTestException"
    /\ errorHandlerRegistry =
         << [ExceptionClass |-> "TestException", handler |-> "h1"],
            [ExceptionClass |-> "SpecificTestException", handler |-> "h2"] >>
    /\ last.result = "h2"

\* The registered classes at or above cls
RegisteredAncestors(registry, cls) ==
    {k \in RegistryKeys(registry) : InstanceOf(cls, k)}

\* C4: inheritance fallback. When, of the classes a Child instance belongs
\* to, only Parent (not Child itself) has a handler, findErrorHandler gives
\* Parent's handler.
C4_InheritanceFallback ==
    LookedUp =>
        \A parent \in Classes :
            ( /\ Extends(last.err.cls, parent)
              /\ RegisteredAncestors(errorHandlerRegistry, last.err.cls) = {parent} )
            => last.result = RegisteredHandler(errorHandlerRegistry, parent)

\* A SpecificTestException looked up with only TestException registered.
C4_Witness ==
    /\ LookedUp
    /\ last.err.cls = "SpecificTestException"
    /\ errorHandlerRegistry = << [ExceptionClass |-> "TestException", handler |-> "h1"] >>
    /\ last.result = "h1"

\* The handler of the nearest registered class at or above cls, if any
RECURSIVE NearestHandler(_, _)
NearestHandler(registry, cls) ==
    IF cls = "Object" THEN NoHandler
    ELSE IF cls \in RegistryKeys(registry) THEN RegisteredHandler(registry, cls)
    ELSE NearestHandler(registry, SuperClass(cls))

\* C5: findErrorHandler returns the most specific handler: the one of the
\* nearest registered class at or above the error's own class.
C5_MostSpecificHandler ==
    LookedUp => last.result = NearestHandler(errorHandlerRegistry, last.err.cls)

\* The positions of the registry entries that match exactly / by instanceof
ExactPositions(registry, cls) ==
    {i \in 1..Len(registry) : registry[i].ExceptionClass = cls}

AncestorPositions(registry, cls) ==
    {i \in 1..Len(registry) : InstanceOf(cls, registry[i].ExceptionClass)}

First(positions) == CHOOSE i \in positions : \A j \in positions : i <= j

SafeDispatched ==
    /\ last.op = "handleWithRegistry"
    /\ last.useSafeWrapper
    /\ last.handler # NoHandler

\* The promise of a safe dispatch has settled
SafeSettled == last.op = "settled" /\ last.useSafeWrapper

\* The handler failed: it threw, or its promise rejected
HandlerFailed ==
    \/ SafeDispatched /\ last.completion.type = "throw"
    \/ SafeSettled /\ last.settlement.type = "throw"

\* originalError's statusCode, 500 if absent
StatusOr500(err) ==
    IF err.statusCode = <<>> THEN INTERNAL_SERVER_ERROR ELSE err.statusCode[1]

IsHandlerExecutionFailed(v, err) ==
    /\ IsHttpResponse(v)
    /\ v.statusCode = StatusOr500(err)
    /\ v.meta.errorCode = "HANDLER_EXECUTION_FAILED"

\* C2: safe dispatch containment. When the handler throws or its promise
\* rejects, handleWithRegistry (useSafeWrapper = true) does not propagate:
\* its result, or the value its promise resolves to, is a response with the
\* original error's status (500 if absent) and errorCode
\* HANDLER_EXECUTION_FAILED.
C2_SafeDispatchContainment ==
    HandlerFailed =>
        /\ last.outcome.type = "return"
        /\ IsHandlerExecutionFailed(last.outcome.value, last.err)

\* The middleware was called
MiddlewareCalled == last.op = "globalErrorHandler"

\* C3: terminal middleware totality. One call of globalErrorHandler does not
\* throw and ends with exactly one of: next(error) called once and nothing
\* sent (the response was already sent), or exactly one response sent and
\* next not called.
C3_MiddlewareTotality ==
    MiddlewareCalled =>
        /\ last.outcome.type = "return"
        /\ \/ /\ last.headersSentOnEntry
              /\ last.nextCalls = <<last.err>>
              /\ last.sent = <<>>
           \/ /\ ~last.headersSentOnEntry
              /\ last.nextCalls = <<>>
              /\ Len(last.sent) = 1

\* C7: the safe wrapper never fails. Whatever the handler does, the wrapped
\* call does not throw, and the promise it returns does not reject.
C7_SafeWrapperNeverFails ==
    (SafeDispatched \/ SafeSettled) => last.outcome.type = "return"

\* C8: transparent success path. A handler that returns a value, or a
\* promise-like value that resolves, is invoked once with the dispatch's own
\* (error, req, res), and the dispatch gives the handler's result: the value
\* itself, a promise-like value for a promise-like value, and on settlement
\* the value the handler's promise resolved to.
C8_TransparentSuccess ==
    /\ ( /\ last.op = "handleWithRegistry"
         /\ last.handler # NoHandler
         /\ last.completion.type = "return" )
       => /\ last.invocations
               = <<Invocation(last.handler, last.err, last.req, "res")>>
          /\ last.outcome.type = "return"
          /\ IF IsThenable(last.completion.value)
             THEN IsThenable(last.outcome.value)
             ELSE last.outcome.value = last.completion.value
    /\ (last.op = "settled" /\ last.settlement.type = "return")
       => last.outcome = last.settlement

(* --------------------- claims on the fallback response ----------------- *)

\* A fallback response was built for last.err: by a direct call, by the safe
\* wrapper's catch block, or by the continuation on the handler's promise.
FallbackBuilt ==
    /\ \/ last.op = "createFallbackResponse"
       \/ HandlerFailed
       \/ SafeDispatched /\ last.completion = Return(ThenableWithoutCatch)
    /\ last.outcome.type = "return"

\* C9: retry classification. The fallback's meta.retryable is false exactly
\* for an original status among 400, 401, 403, 404, 409; true for every
\* other status and for an absent one.
C9_RetryClassification ==
    FallbackBuilt =>
        ( last.outcome.value.meta.retryable
            <=> ~( /\ last.err.statusCode # <<>>
                   /\ last.err.statusCode[1] \in {400, 401, 403, 404, 409} ) )

\* Fallbacks were built for 401 (not retryable), for 429 and for an absent
\* status (retryable); each is a witness.
C9_Witness ==
    /\ FallbackBuilt
    /\ last.err.statusCode = <<429>>
    /\ last.outcome.value.meta.retryable

\* C10: fallback message mapping. The fallback's status is the original
\* error's statusCode, 500 if absent, and the message follows from that
\* status alone.
C10_FallbackMessageMapping ==
    FallbackBuilt =>
        LET status == StatusOr500(last.err) IN
        /\ last.outcome.value.statusCode = status
        /\ last.outcome.value.message =
             CASE status = 404 -> "Requested resource not found"
               [] status = 400 -> "Invalid request data"
               [] status = 403 -> "Access denied"
               [] status = 409 -> "Resource conflict occurred"
               [] OTHER -> "Service temporarily unavailable"

\* A fallback built for a 401: the generic message, the status kept.
C10_Witness ==
    /\ FallbackBuilt
    /\ last.err.statusCode = <<401>>
    /\ last.outcome.value.statusCode = 401
    /\ last.outcome.value.message = "Service temporarily unavailable"

\* The fields of the original error the fallback may depend on
FallbackKey(err) ==
    [statusCode |-> err.statusCode, errorCode |-> err.errorCode,
     correlationId |-> err.correlationId,
     domain |-> IF err.metadata # <<>> /\ "domain" \in DOMAIN err.metadata[1]
                THEN <<err.metadata[1].domain>> ELSE <<>>]

\* The handler's own error in the failure that built the fallback in `last`
FailedWith ==
    IF last.op = "createFallbackResponse" THEN last.handlerError
    ELSE IF last.op = "settled" THEN last.settlement.value
    ELSE IF last.completion.type = "throw" THEN last.completion.value
    ELSE TypeError

\* C11: fallback non-leakage. The fallback's data is null, its message is
\* neither the original error's message nor the handler error's message, and
\* any other handler failure whose original error agrees on statusCode,
\* errorCode, correlationId and metadata.domain - whatever its message, its
\* data and the handler's own error - gets the same message and data.
C11_FallbackNonLeakage ==
    FallbackBuilt =>
        /\ last.outcome.value.data = "null"
        /\ last.outcome.value.message # last.err.message
        /\ last.outcome.value.message # FailedWith.message
        /\ \A other \in FallbackOriginals, handlerError \in HandlerErrors, req \in Reqs :
            LET fallback == createFallbackResponse(other, handlerError, req) IN
            (FallbackKey(other) = FallbackKey(last.err) /\ fallback.type = "return")
            => /\ fallback.value.message = last.outcome.value.message
               /\ fallback.value.data = last.outcome.value.data

\* A fallback built for an original error that carries data and an internal
\* message, after the handler threw an Error: status 500, the generic message.
C11_Witness ==
    /\ FallbackBuilt
    /\ last.err.data = "details"
    /\ last.err.message = "connect ECONNREFUSED 10.0.0.5"
    /\ FailedWith.name = "Error"
    /\ last.outcome.value.data = "null"
    /\ last.outcome.value.message = "Service temporarily unavailable"

\* C12: fallback metadata. meta.correlationId is the original error's
\* correlationId if it has one, a generated token otherwise;
\* meta.originalErrorCode is the original error's errorCode; meta.domain is
\* there only if the original error's metadata exists and has a domain, and
\* then equals it.
C12_FallbackMetadata ==
    FallbackBuilt =>
        LET meta == last.outcome.value.meta
            err == last.err
        IN /\ meta.correlationId =
                IF err.correlationId # "undefined" THEN err.correlationId
                ELSE "fallback_generated"
           /\ meta.originalErrorCode = err.errorCode
           /\ IF err.metadata # <<>> /\ "domain" \in DOMAIN err.metadata[1]
              THEN "domain" \in DOMAIN meta /\ meta.domain = err.metadata[1].domain
              ELSE "domain" \notin DOMAIN meta

\* A fallback built, without failing, for an exception whose metadata was
\* set to null after construction (its meta alias still has the domain).
C12_Witness ==
    /\ FallbackBuilt
    /\ last.err.metadata = <<>>
    /\ last.err.meta # <<>>
    /\ "domain" \in DOMAIN last.err.meta[1]
    /\ "domain" \notin DOMAIN last.outcome.value.meta
    /\ last.outcome.value.meta.correlationId = "fallback_generated"

(* -------------------- claims on the terminal middleware ---------------- *)

\* C13: already-responded tier. When res.headersSent is true on entry,
\* globalErrorHandler calls next once with the error it was given, sends
\* nothing, and neither looks into the registry nor invokes a handler.
C13_AlreadyRespondedTier ==
    (MiddlewareCalled /\ last.headersSentOnEntry) =>
        /\ last.nextCalls = <<last.err>>
        /\ last.sent = <<>>
        /\ last.lookups = 0
        /\ last.invocations = <<>>
        /\ last.outcome.type = "return"

\* The middleware was entered with headersSent for an error that has a
\* handler in the registry, and for a thrown HttpResponse: both forwarded.
C13_Witness ==
    /\ MiddlewareCalled
    /\ last.headersSentOnEntry
    /\ IsHttpResponse(last.err)
    /\ errorHandlerRegistry # <<>>
    /\ last.nextCalls = <<last.err>>

\* What the registry dispatch of the call in `last` gave the middleware
DispatchGaveNothing ==
    \/ last.handler = NoHandler
    \/ last.completion = Return(Null)

HandlerAnswered ==
    /\ last.handler # NoHandler
    /\ last.completion.type = "return"
    /\ IsHttpResponse(last.completion.value)

\* C14: tier ordering. The tiers are tried in the order already-responded,
\* pre-built response, registry, known-failure default, unknown failure, and
\* only the first that matches acts: a thrown HttpResponse is sent as it is
\* with no handler invoked; a handler's response is what is sent when a
\* handler matched and returned one; the default conversions are sent only
\* when the dispatch gave nothing.
C14_TierOrdering ==
    MiddlewareCalled =>
        /\ Len(last.sent) <= 1
        /\ Len(last.nextCalls) <= 1
        /\ IF last.headersSentOnEntry
           THEN last.nextCalls = <<last.err>> /\ last.sent = <<>>
                /\ last.invocations = <<>>
           ELSE /\ last.nextCalls = <<>>
                /\ IF IsHttpResponse(last.err)
                   THEN /\ last.invocations = <<>>
                        /\ Len(last.sent) = 1
                        /\ last.sent[1].status = last.err.statusCode
                        /\ last.sent[1].body.message = last.err.message
                   ELSE IF HandlerAnswered
                   THEN /\ Len(last.sent) = 1
                        /\ last.sent[1].status = last.completion.value.statusCode
                        /\ last.sent[1].body.message = last.completion.value.message
                        /\ "handledBy" \in DOMAIN last.sent[1].body.meta
                        /\ last.sent[1].body.meta.handledBy = last.handler
                   ELSE IF ~DispatchGaveNothing
                   THEN \* the registry tier acted: a fallback or nothing is sent
                        \/ last.sent = <<>>
                        \/ /\ "errorCode" \in DOMAIN last.sent[1].body.meta
                           /\ last.sent[1].body.meta.errorCode = "HANDLER_EXECUTION_FAILED"
                   ELSE IF IsBaseException(last.err)
                   THEN /\ Len(last.sent) = 1
                        /\ last.sent[1].body.message = last.err.message
                        /\ last.sent[1].status =
                             IF last.err.statusCode = <<>> THEN 400
                             ELSE last.err.statusCode[1]
                   ELSE /\ Len(last.sent) = 1
                        /\ last.sent[1].status = 500

\* A BaseException with its own statusCode and a matching handler that
\* returned a response: the handler's response was sent, not the conversion.
C14_Witness ==
    /\ MiddlewareCalled
    /\ ~last.headersSentOnEntry
    /\ IsBaseException(last.err)
    /\ last.err.statusCode = <<404>>
    /\ HandlerAnswered
    /\ last.sent[1].status = 400
    /\ last.sent[1].body.meta.handledBy = last.handler

\* The case of the known-failure default tier
KnownFailureDefault ==
    /\ MiddlewareCalled
    /\ ~last.headersSentOnEntry
    /\ IsBaseException(last.err)
    /\ DispatchGaveNothing

\* { ...base, errorCode, isOperational, correlationId } with the defined ones
Overlaid(base, err) ==
    [k \in DOMAIN base
          \cup (IF err.errorCode # "undefined" THEN {"errorCode"} ELSE {})
          \cup (IF err.isOperational # "undefined" THEN {"isOperational"} ELSE {})
          \cup (IF err.correlationId # "undefined" THEN {"correlationId"} ELSE {})
       |-> IF k = "errorCode" /\ err.errorCode # "undefined" THEN err.errorCode
           ELSE IF k = "isOperational" /\ err.isOperational # "undefined"
                THEN err.isOperational
           ELSE IF k = "correlationId" /\ err.correlationId # "undefined"
                THEN err.correlationId
           ELSE base[k]]

\* The response sent is the failure response for err with this meta
SentDefaultWith(meta) ==
    /\ last.outcome.type = "return"
    /\ Len(last.sent) = 1
    /\ LET status == IF last.err.statusCode = <<>> THEN 400
                     ELSE last.err.statusCode[1]
           body == last.sent[1].body
       IN /\ last.sent[1].status = status
          /\ body.statusCode = status
          /\ body.success = FALSE
          /\ body.message = last.err.message
          /\ IF last.err.data = "null"
             THEN "error" \notin DOMAIN body
             ELSE body.error = last.err.data
          /\ "data" \notin DOMAIN body
          /\ body.meta = Spread([timestamp |-> "now"], meta)

\* C15 as stated: known-failure default tier. For a BaseException for which
\* the dispatch gives nothing, the response sent has the error's message and
\* data, the error's statusCode (400 if absent when handled), and as meta the
\* error's metadata overlaid with errorCode, isOperational and correlationId
\* where defined.
C15_KnownFailureDefault ==
    KnownFailureDefault =>
        SentDefaultWith(Overlaid(IF last.err.metadata # <<>>
                                 THEN last.err.metadata[1] ELSE <<>>,
                                 last.err))

\* C15 amended: as C15, the meta being built on the error's metadata or, when
\* metadata is null or undefined, on the object under its meta alias.
C15_KnownFailureDefaultWithAlias ==
    KnownFailureDefault =>
        SentDefaultWith(Overlaid(IF last.err.metadata # <<>> THEN last.err.metadata[1]
                                 ELSE IF last.err.meta # <<>> THEN last.err.meta[1]
                                 ELSE <<>>,
                                 last.err))

\* An exception whose metadata was set to null, with no handler: answered
\* with its own status, the meta built on the alias.
C15_Witness ==
    /\ KnownFailureDefault
    /\ last.err.metadata = <<>>
    /\ last.err.meta # <<>>
    /\ last.handler = NoHandler
    /\ last.sent[1].status = 404
    /\ last.sent[1].body.meta.domain = "user"
    /\ last.sent[1].body.meta.errorCode = "USER_NOT_FOUND"

\* The case of the unknown-failure tier
UnknownFailure ==
    /\ MiddlewareCalled
    /\ ~last.headersSentOnEntry
    /\ ~IsHttpResponse(last.err)
    /\ ~IsBaseException(last.err)
    /\ last.handler = NoHandler

\* C16: unknown-failure tier. An error that is neither an HttpResponse nor a
\* BaseException and has no matching handler is answered with status 500 and
\* success false; the message is "Internal Server Error" in production, and
\* otherwise the error's message, or "Internal Server Error" if it has none.
C16_UnknownFailureTier ==
    UnknownFailure =>
        /\ last.outcome.type = "return"
        /\ Len(last.sent) = 1
        /\ last.sent[1].status = 500
        /\ last.sent[1].body.success = FALSE
        /\ last.sent[1].body.message =
             IF last.NODE_ENV = "production" THEN "Internal Server Error"
             ELSE IF last.err.message = "" THEN "Internal Server Error"
             ELSE last.err.message

\* Error("boom") in production: the message is masked.
C16_Witness ==
    /\ UnknownFailure
    /\ last.NODE_ENV = "production"
    /\ last.err.message = "boom"
    /\ last.sent[1].status = 500
    /\ last.sent[1].body.message = "Internal Server Error"

(* ------------------------ claims on the registry ----------------------- *)

KeysDistinct(registry) ==
    \A i, j \in 1..Len(registry) :
        registry[i].ExceptionClass = registry[j].ExceptionClass => i = j

\* C17: one handler per variant. Whatever operation runs, the registry has
\* at most one entry per class afterwards; a registration of a class that is
\* already there leaves the size as it was, the class then maps to the
\* handler just registered, and a lookup by an instance of a registered
\* class gives the handler the class maps to.
C17_OneHandlerPerVariant ==
    [][ /\ KeysDistinct(errorHandlerRegistry')
        /\ (last'.op = "registerErrorHandler" /\ last'.outcome.type = "return")
           => /\ last'.ExceptionClass \in RegistryKeys(errorHandlerRegistry)
                   => Len(errorHandlerRegistry') = Len(errorHandlerRegistry)
              /\ \E i \in 1..Len(errorHandlerRegistry') :
                   errorHandlerRegistry'[i] =
                       [ExceptionClass |-> last'.ExceptionClass, handler |-> last'.handler]
        /\ (last'.op = "findErrorHandler"
              /\ last'.err.cls \in RegistryKeys(errorHandlerRegistry'))
           => \E i \in 1..Len(errorHandlerRegistry') :
                /\ errorHandlerRegistry'[i].ExceptionClass = last'.err.cls
                /\ errorHandlerRegistry'[i].handler = last'.result
      ]_vars

\* The class just registered is not the newest entry of the registry: it
\* was registered before the other one and has been registered again.
C17_Witness ==
    /\ last.op = "registerErrorHandler"
    /\ last.outcome.type = "return"
    /\ last.ExceptionClass = "TestException"
    /\ last.handler = "h2"
    /\ errorHandlerRegistry =
         << [ExceptionClass |-> "TestException", handler |-> "h2"],
            [ExceptionClass |-> "BaseException", handler |-> "h1"] >>

C19_SnapshotIsolation ==
    [][ /\ last'.op = "getRegisteredHandlers"
           => /\ MapEntries(snapshot', errorHandlerRegistry') = errorHandlerRegistry
              /\ last'.result = errorHandlerRegistry
              /\ errorHandlerRegistry' = errorHandlerRegistry
        /\ last'.op = "snapshotMutated"
           => /\ errorHandlerRegistry' = errorHandlerRegistry
              /\ \A err \in LookupInstances :
                   findErrorHandler(errorHandlerRegistry', err)
                     = findErrorHandler(errorHandlerRegistry, err)
        /\ (last'.op \in {"registerErrorHandler", "clearRegistry"}
              /\ snapshot # NoSnapshot)
           => MapEntries(snapshot', errorHandlerRegistry')
                = MapEntries(snapshot, errorHandlerRegistry)
      ]_vars

\* The Map a caller holds was cleared while the registry has two entries.
C19_Witness ==
    /\ last.op = "snapshotMutated"
    /\ last.mutation.method = "clear"
    /\ snapshot # NoSnapshot
    /\ MapEntries(snapshot, errorHandlerRegistry) = <<>>
    /\ Len(errorHandlerRegistry) = 2

\* C20: clear. After clearRegistry, whatever was registered, the registry is
\* empty - also when it was empty before the call - and on the empty
\* registry getRegisteredHandlers gives no entry and findErrorHandler gives
\* null.
C20_Clear ==
    /\ last.op = "clearRegistry" => errorHandlerRegistry = <<>>
    /\ errorHandlerRegistry = <<>>
       => /\ last.op = "getRegisteredHandlers" => last.result = <<>>
          /\ last.op = "findErrorHandler" => last.result = NoHandler

\* A clear that removed two entries.
C20_Witness ==
    /\ last.op = "clearRegistry"
    /\ last.removed = 2
    /\ errorHandlerRegistry = <<>>

(* --------------------- claims on the dispatch modes -------------------- *)

\* No entry of the registry is for the class of the error in `last` or for
\* one of its ancestors
NothingMatches == RegisteredAncestors(errorHandlerRegistry, last.err.cls) = {}

\* C21: no-handler signal. When no registered class is the error's class or
\* an ancestor of it, findErrorHandler gives null, handleWithRegistry
\* returns null, and no handler is invoked.
C21_NoHandlerSignal ==
    /\ (LookedUp /\ NothingMatches) => last.result = NoHandler
    /\ (last.op = "handleWithRegistry" /\ NothingMatches)
       => /\ last.handler = NoHandler
          /\ last.outcome = [type |-> "return", value |-> [t |-> "null"]]
          /\ last.invocations = <<>>

\* A plain Error dispatched with two BaseException subclasses registered.
C21_Witness ==
    /\ last.op = "handleWithRegistry"
    /\ last.err.cls = "Error"
    /\ RegistryKeys(errorHandlerRegistry) = {"TestException", "SpecificTestException"}
    /\ last.outcome.value = [t |-> "null"]
    /\ last.invocations = <<>>

\* C22: direct mode. With useSafeWrapper = false the matched handler is
\* called unwrapped: what it throws is what handleWithRegistry throws, and
\* no fallback response is built.
C22_DirectMode ==
    ( /\ last.op = "handleWithRegistry"
      /\ ~last.useSafeWrapper
      /\ last.handler # NoHandler
      /\ last.completion.type = "throw" )
    => /\ last.outcome.type = "throw"
       /\ last.outcome.value = last.completion.value
       /\ Len(last.invocations) = 1

\* In direct mode the handler threw an Error and the dispatch threw it.
C22_Witness ==
    /\ last.op = "handleWithRegistry"
    /\ ~last.useSafeWrapper
    /\ last.handler # NoHandler
    /\ last.completion.type = "throw"
    /\ last.completion.value.name = "Error"
    /\ last.req = "express"
    /\ last.outcome = last.completion

(* ------------------------ claims on the wire shape --------------------- *)

\* C23: wire shape of HttpResponse.send. The transport status is
\* DEFAULT_HTTP_STATUS_CODE when SET_DEFAULT_HTTP_STATUS_CODE is on, the
\* response's statusCode otherwise; the body has success and message always,
\* statusCode exactly when USE_STATUS_CODE_IN_RESPONSE is on, data only for a
\* success with non-null data, error only for a failure with non-null data,
\* never both; success is true exactly for 200 <= statusCode < 300.
C23_WireShape ==
    (last.op = "send" /\ last.resIsValid) =>
        LET r == last.response
            o == last.options
            body == last.sent[1].body
            hasData == r.data \notin {"null", "undefined"}
            ok == 200 <= r.statusCode /\ r.statusCode < 300
        IN /\ Len(last.sent) = 1
           /\ last.sent[1].status =
                IF o.SET_DEFAULT_HTTP_STATUS_CODE THEN o.DEFAULT_HTTP_STATUS_CODE
                ELSE r.statusCode
           /\ {"success", "message"} \subseteq DOMAIN body
           /\ body.success = ok
           /\ body.message = r.message
           /\ ("statusCode" \in DOMAIN body) = o.USE_STATUS_CODE_IN_RESPONSE
           /\ "statusCode" \in DOMAIN body => body.statusCode = r.statusCode
           /\ ("data" \in DOMAIN body) = (ok /\ hasData)
           /\ "data" \in DOMAIN body => body.data = r.data
           /\ ("error" \in DOMAIN body) = (~ok /\ hasData)
           /\ "error" \in DOMAIN body => body.error = r.data
           /\ ~({"data", "error"} \subseteq DOMAIN body)

\* A 404 with a payload sent with the default status forced to 418 and the
\* status kept out of the body.
C23_Witness ==
    /\ last.op = "send"
    /\ last.resIsValid
    /\ last.response.statusCode = 404
    /\ last.response.data = "payload"
    /\ last.options.SET_DEFAULT_HTTP_STATUS_CODE
    /\ ~last.options.USE_STATUS_CODE_IN_RESPONSE
    /\ last.sent[1].status = 418
    /\ DOMAIN last.sent[1].body = {"success", "message", "error", "meta"}

(* ----------------------- claims on wrapController ---------------------- *)

\* A request went through a wrapped controller that got the restricted res
RestrictedRun == last.op = "wrapController" /\ ~last.allowRes

\* C24: wrapController outcomes with the restricted res. Exactly one of 'a
\* response is sent' and 'next(err) is called once' happens. A return other
\* than undefined is sent (an HttpResponse as it is, anything else as a
\* success 200); a throw, and a blocked direct use of res, goes to next with
\* nothing sent; undefined goes to next as a BaseException with status 500
\* under STRICT_CONTROLLER_RETURN and is answered with success(null), status
\* 200, without it.
C24_WrapControllerOutcomes ==
    RestrictedRun =>
        LET run == last.run
            value == run.completion.value
            sentOne == Len(last.sent) = 1 /\ last.nextCalls = <<>>
            forwarded == last.sent = <<>> /\ Len(last.nextCalls) = 1
        IN /\ last.outcome.type = "return"
           /\ sentOne \/ forwarded
           /\ IF run.sends
              THEN forwarded /\ last.nextCalls[1].name = "Error"
              ELSE IF run.completion.type = "throw"
              THEN forwarded /\ last.nextCalls[1] = value
              ELSE IF value = [t |-> "value", v |-> "undefined"]
              THEN IF last.options.STRICT_CONTROLLER_RETURN
                   THEN /\ forwarded
                        /\ last.nextCalls[1].cls = "BaseException"
                        /\ last.nextCalls[1].statusCode = <<500>>
                   ELSE /\ sentOne
                        /\ last.sent[1].status = 200
                        /\ last.sent[1].body.success
                        /\ "data" \notin DOMAIN last.sent[1].body
              ELSE IF value.t = "HttpResponse"
              THEN /\ sentOne
                   /\ last.sent[1].status = value.statusCode
                   /\ last.sent[1].body.message = value.message
                   /\ last.sent[1].body.success = value.success
              ELSE /\ sentOne
                   /\ last.sent[1].status = 200
                   /\ last.sent[1].body.success
                   /\ IF value.v = "null" THEN "data" \notin DOMAIN last.sent[1].body
                      ELSE last.sent[1].body.data = value.v

\* Under STRICT_CONTROLLER_RETURN a controller returned undefined: forwarded
\* to next as the 500 BaseException, nothing sent.
C24_Witness ==
    /\ RestrictedRun
    /\ ~last.run.sends
    /\ last.run.completion = [type |-> "return", value |-> [t |-> "value", v |-> "undefined"]]
    /\ last.options.STRICT_CONTROLLER_RETURN
    /\ last.sent = <<>>
    /\ Len(last.nextCalls) = 1
    /\ last.nextCalls[1].message = "No response"

\* C30: no double send in wrapController. Whatever the controller does, also
\* with allowRes = true when it sends the response itself and then returns
\* or throws, res is not made to send a second response.
C30_NoDoubleSend ==
    last.op = "wrapController" => Len(last.sent) <= 1

(* ------------------------ claims on the user module -------------------- *)

\* C25: user module registration. After initializeUserModule() each of the
\* four user exception classes has its own handler registered, and
\* findErrorHandler on an instance of each class gives that class's handler.
C25_UserModuleRegistration ==
    /\ last.op = "initializeUserModule"
       => \A c \in UserExceptionClasses :
            \E i \in 1..Len(errorHandlerRegistry) :
                errorHandlerRegistry[i] =
                    [ExceptionClass |-> c, handler |-> UserHandler(c)]
    /\ ( /\ LookedUp
         /\ "UserNotFoundException" \in RegistryKeys(errorHandlerRegistry)
         /\ last.err.cls \in UserExceptionClasses )
       => last.result = UserHandler(last.err.cls)

(* -------------------- claims on asynchronous handlers ------------------ *)

\* C26: asynchronous handler through the terminal middleware. When the
\* matched handler returns a promise, globalErrorHandler does not throw, and
\* once the promise has settled exactly one response has been sent: the
\* response the promise resolved to, or the fallback if it rejected.
C26_AsyncHandlerThroughMiddleware ==
    /\ ( /\ MiddlewareCalled
         /\ ~last.headersSentOnEntry
         /\ last.handler # NoHandler
         /\ last.completion = [type |-> "return",
                               value |-> [t |-> "Promise", hasCatch |-> TRUE]] )
       => last.outcome.type = "return"
    /\ (last.op = "settled" /\ last.via = "globalErrorHandler")
       => /\ last.outcome.type = "return"
          /\ Len(last.sent) = 1
          /\ last.sent[1].status = last.outcome.value.statusCode
          /\ last.sent[1].body.message = last.outcome.value.message

\* Every entry of the registry is a class with a function
EntriesComplete(registry) ==
    \A i \in 1..Len(registry) :
        /\ DOMAIN registry[i] = {"ExceptionClass", "handler"}
        /\ registry[i].handler \in Handlers \cup UserHandlers

\* C27: in-flight dispatch isolation. A registration or a clear while the
\* promise of a dispatch is pending leaves that dispatch as it is; the
\* handler found when the dispatch started is called once, then, and it is
\* the one whose result - or whose fallback - the dispatch's promise settles
\* with, without a further call; the registry holds whole entries, one per
\* class, after every step.
C27_InFlightIsolation ==
    [][ /\ (inflight.active /\ last'.op \in {"registerErrorHandler", "clearRegistry"})
           => inflight' = inflight
        /\ (last'.op \in {"handleWithRegistry", "globalErrorHandler"} /\ inflight'.active)
           => /\ inflight'.handler = last'.handler
              /\ Len(last'.invocations) = 1
              /\ last'.invocations[1].handler = last'.handler
        /\ last'.op = "settled"
           => /\ last'.handler = inflight.handler
              /\ last'.invocations = <<>>
              /\ last'.settlement.type = "return"
                   => /\ last'.outcome = last'.settlement
                      /\ last'.outcome.value.meta.handledBy = inflight.handler
              /\ (last'.settlement.type = "throw" /\ ~last'.useSafeWrapper)
                   => last'.outcome = last'.settlement
              /\ ( /\ last'.settlement.type = "throw"
                   /\ last'.useSafeWrapper
                   /\ last'.outcome.type = "return" )
                   => IsHandlerExecutionFailed(last'.outcome.value, inflight.err)
        /\ KeysDistinct(errorHandlerRegistry')
        /\ EntriesComplete(errorHandlerRegistry')
      ]_vars

\* The promise of a dispatch resolved after the registry had been cleared:
\* the result is the response of the handler the dispatch had found.
C27_Witness ==
    /\ last.op = "settled"
    /\ last.via = "handleWithRegistry"
    /\ last.settlement.type = "return"
    /\ errorHandlerRegistry = <<>>
    /\ last.handler = "h2"
    /\ last.outcome.value.meta.handledBy = "h2"

(* ---------------------- claims on scan positions ----------------------- *)

HandlerReturnedNothing ==
    /\ MiddlewareCalled
    /\ ~last.headersSentOnEntry
    /\ last.handler # NoHandler
    /\ Len(last.invocations) = 1
    /\ last.completion = [type |-> "return", value |-> [t |-> "null"]]

\* C29: handler returning nothing. When the matched handler returns null or
\* undefined without failing, the middleware goes on as if no handler had
\* been found: a BaseException is answered with its own message and its
\* statusCode (400 if absent), any other error with status 500 and the
\* message of the unknown-failure tier; exactly one response is sent and
\* next is not called.
C29_HandlerReturningNothing ==
    HandlerReturnedNothing =>
        /\ last.outcome.type = "return"
        /\ last.nextCalls = <<>>
        /\ Len(last.sent) = 1
        /\ last.sent[1].body.success = FALSE
        /\ "handledBy" \notin DOMAIN last.sent[1].body.meta
        /\ IF IsBaseException(last.err)
           THEN /\ last.sent[1].status = (IF last.err.statusCode = <<>> THEN 400
                                          ELSE last.err.statusCode[1])
                /\ last.sent[1].body.message = last.err.message
           ELSE /\ last.sent[1].status = 500
                /\ last.sent[1].body.message =
                     IF last.NODE_ENV = "production" \/ last.err.message = ""
                     THEN "Internal Server Error"
                     ELSE last.err.message

\* A handler registered for Error returned nothing for Error("boom") outside
\* production: status 500 with the error's message.
C29_Witness ==
    /\ HandlerReturnedNothing
    /\ last.err.cls = "Error"
    /\ last.err.message = "boom"
    /\ last.NODE_ENV # "production"
    /\ last.sent[1].status = 500
    /\ last.sent[1].body.message = "boom"

====
